---- MODULE Spec2Model ----
(***************************************************************************)
(* The model factory get_model of neuralhydrology.modelzoo and the GRU     *)
(* model of the "Adding a New Model" tutorial                              *)
(* (examples/02-Adding-Models/adding-gru.ipynb).                           *)
(*                                                                         *)
(* Spec     : one call of get_model(cfg), statement by statement.          *)
(* SpecGRU  : GRU.__init__(cfg) followed by calls of GRU.forward(data).    *)
(***************************************************************************)
EXTENDS Naturals, Sequences, FiniteSets

VARIABLES
    SINGLE_FREQ_MODELS, \* module constant read by get_model
    cfg,                \* the run configuration handed to get_model / GRU
    pc,                 \* position inside get_model
    todo,               \* statements left in the selected if/elif branch
    warned,             \* warnings emitted so far (warnings.warn)
    constructed,        \* constructor invocations so far, in order
    model,              \* get_model's local variable `model`
    result,             \* value returned by get_model
    error,              \* exception raised by get_model
    self,               \* the GRU object under construction / in use
    ipc,                \* position inside GRU.__init__
    wired,              \* attributes assigned by GRU.__init__, in order
    data,               \* the input batch of the current forward call
    fpc,                \* position inside GRU.forward
    x_d,                \* forward's local x_d
    gru_output,         \* forward's local gru_output
    h_n,                \* forward's local h_n
    pred,               \* forward's local pred
    dropped,            \* value of self.dropout(...) inside line 167
    head_out,           \* value of self.head(...) inside line 167
    stages,             \* sub-module calls of the current forward call, in order
    out,                \* value returned by forward
    ncalls              \* forward calls started so far

fvars == <<SINGLE_FREQ_MODELS, cfg, pc, todo, warned, constructed, model, result, error>>

gvars == <<self, ipc, wired, data, fpc, x_d, gru_output, h_n, pred, dropped, head_out,
           stages, out, ncalls>>

vars == <<fvars, gvars>>

None == [cls |-> "None"]
NoError == [type |-> "None"]

(***************************************************************************)
(* Bounds of the model.                                                    *)
(***************************************************************************)
MaxFreqs == 2
MaxHidden == 2
MaxDynamic == 2
MaxStatic == 1
MaxTargets == 2
MaxBatch == 2
MaxSeqLen == 2
MaxForwardCalls == 2

(***************************************************************************)
(* Model identifiers.                                                      *)
(***************************************************************************)
\* the identifiers that have a branch in get_model's if/elif chain
HandledIds ==
    {"cudalstm", "ealstm", "customlstm", "lstm", "gru", "embcudalstm", "mtslstm", "odelstm"}

\* identifiers without a branch (any other string behaves the same)
OtherIds == {"arlstm", "GRU"}

ModelIds == HandledIds \cup OtherIds

\* the frequencies a configuration can declare, in the order of the sample
\* configuration (use_frequencies: 1D, 1h); longer lists add further ones
FreqNames == <<"1D", "1h", "15min", "1W">>

FrequencyLists == {SubSeq(FreqNames, 1, n) : n \in 0..MaxFreqs}

\* The sample run configuration: model, hidden_size, use_frequencies,
\* dynamic_inputs, static_attributes, target_variables.
SampleConfig ==
    [model |-> "mtslstm", use_frequencies |-> <<"1D", "1h">>, hidden_size |-> 16,
     output_dropout |-> "0.4", n_dynamic |-> 2, n_static |-> 2, n_targets |-> 1]

\* configurations handed to get_model
Configs ==
    {[SampleConfig EXCEPT !.model = m, !.use_frequencies = f, !.hidden_size = h] :
        m \in ModelIds, f \in FrequencyLists, h \in 1..MaxHidden}
    \cup {SampleConfig}

\* SINGLE_FREQ_MODELS is defined next to get_model, outside the tutorial.  It
\* lists models (identifiers get_model knows) that cannot take several
\* frequencies; the multi-timescale MTS-LSTM, which the sample configuration
\* runs with two frequencies, is not one of them.
SingleFreqChoices == SUBSET (HandledIds \ {"mtslstm"})

(***************************************************************************)
(* get_model                                                               *)
(***************************************************************************)
\* faulty variant: the check tolerates two frequencies
FreqCheck_OffByOneHigh(single, c) ==
    c.model \in single /\ Len(c.use_frequencies) > 2

\* faulty variant: the check rejects a single frequency
FreqCheck_OffByOneLow(single, c) ==
    c.model \in single /\ Len(c.use_frequencies) >= 1

\* if cfg.model in SINGLE_FREQ_MODELS and len(cfg.use_frequencies) > 1
MultiFreqUnsupported(single, c) ==
    c.model \in single /\ Len(c.use_frequencies) > 1

New(cls) == [op |-> "new", cls |-> cls]
WarnStmt == [op |-> "warn", cls |-> "FutureWarning"]
RaiseStmt == [op |-> "raise", cls |-> "NotImplementedError"]

\* faulty variant: the gru branch builds the wrong class
Branch_GruSwapped(m) ==
    IF m = "cudalstm" THEN <<New("CudaLSTM")>>
    ELSE IF m = "ealstm" THEN <<New("EALSTM")>>
    ELSE IF m = "customlstm" THEN <<New("CustomLSTM")>>
    ELSE IF m = "lstm" THEN <<WarnStmt, New("CustomLSTM")>>
    ELSE IF m = "gru" THEN <<New("CustomLSTM")>>
    ELSE IF m = "embcudalstm" THEN <<New("EmbCudaLSTM")>>
    ELSE IF m = "mtslstm" THEN <<New("MTSLSTM")>>
    ELSE IF m = "odelstm" THEN <<New("ODELSTM")>>
    ELSE <<RaiseStmt>>

\* faulty variant: the else branch falls back to a default model
Branch_DefaultModel(m) ==
    IF m = "cudalstm" THEN <<New("CudaLSTM")>>
    ELSE IF m = "ealstm" THEN <<New("EALSTM")>>
    ELSE IF m = "customlstm" THEN <<New("CustomLSTM")>>
    ELSE IF m = "lstm" THEN <<WarnStmt, New("CustomLSTM")>>
    ELSE IF m = "gru" THEN <<New("GRU")>>
    ELSE IF m = "embcudalstm" THEN <<New("EmbCudaLSTM")>>
    ELSE IF m = "mtslstm" THEN <<New("MTSLSTM")>>
    ELSE IF m = "odelstm" THEN <<New("ODELSTM")>>
    ELSE <<New("CudaLSTM")>>

\* faulty variant: the deprecated identifier warns and then is not recognised
Branch_WarnThenFallThrough(m) ==
    IF m = "cudalstm" THEN <<New("CudaLSTM")>>
    ELSE IF m = "ealstm" THEN <<New("EALSTM")>>
    ELSE IF m = "customlstm" THEN <<New("CustomLSTM")>>
    ELSE IF m = "lstm" THEN <<WarnStmt, RaiseStmt>>
    ELSE IF m = "gru" THEN <<New("GRU")>>
    ELSE IF m = "embcudalstm" THEN <<New("EmbCudaLSTM")>>
    ELSE IF m = "mtslstm" THEN <<New("MTSLSTM")>>
    ELSE IF m = "odelstm" THEN <<New("ODELSTM")>>
    ELSE <<RaiseStmt>>

\* the if/elif/else chain: the statements of the branch selected by cfg.model
Branch(m) ==
    IF m = "cudalstm" THEN <<New("CudaLSTM")>>
    ELSE IF m = "ealstm" THEN <<New("EALSTM")>>
    ELSE IF m = "customlstm" THEN <<New("CustomLSTM")>>
    ELSE IF m = "lstm" THEN <<WarnStmt, New("CustomLSTM")>>
    ELSE IF m = "gru" THEN <<New("GRU")>>
    ELSE IF m = "embcudalstm" THEN <<New("EmbCudaLSTM")>>
    ELSE IF m = "mtslstm" THEN <<New("MTSLSTM")>>
    ELSE IF m = "odelstm" THEN <<New("ODELSTM")>>
    ELSE <<RaiseStmt>>

(***************************************************************************)
(* Tensors, by shape and provenance: `by` is the stage that produced the   *)
(* tensor, `of` the stage whose output that stage consumed.                *)
(***************************************************************************)
NoTensor == [shape |-> <<0, 0, 0>>, by |-> "none", of |-> "none"]

EmptyDict == [k \in {} |-> NoTensor]

\* t.transpose(0, 1)
Transpose01(t) == [t EXCEPT !.shape = <<t.shape[2], t.shape[1], t.shape[3]>>]

\* keys a head may return besides 'y_hat'
ExtraHeadKeys == {"h_n", "y_aux"}

\* input batches: x_d is [batch size, sequence length, features] per feature
Batches == [batch_size : 1..MaxBatch, seq_length : 1..MaxSeqLen]

\* configurations handed to GRU(cfg)
GRUConfigs ==
    {[SampleConfig EXCEPT !.model = "gru", !.use_frequencies = <<"1D">>,
                          !.hidden_size = h, !.n_dynamic = d, !.n_static = s,
                          !.n_targets = t] :
        h \in 1..MaxHidden, d \in 1..MaxDynamic, s \in 0..MaxStatic, t \in 1..MaxTargets}

(***************************************************************************)
(* The parts GRU is wired from.                                            *)
(***************************************************************************)
\* BaseModel.__init__(cfg): one model output per target variable
BaseModelOutputSize(c) == c.n_targets

\* InputLayer(cfg): without embedding the features are passed through, the
\* statics merged to each step of the dynamics
InputLayerNew(c) == [output_size |-> c.n_dynamic + c.n_static]

\* embedding_net(data, concatenate_output=True): [seq length, batch size, features]
InputLayerForward(layer, d) ==
    [shape |-> <<d.seq_length, d.batch_size, layer.output_size>>,
     by |-> "embedding_net", of |-> "data"]

\* nn.GRU(input_size, hidden_size): one layer, sequence first
TorchGRUAccepts(layer, x) == x.shape[3] = layer.input_size

TorchGRUOutput(layer, x) ==
    [shape |-> <<x.shape[1], x.shape[2], layer.hidden_size>>, by |-> "gru", of |-> x.by]

TorchGRUHidden(layer, x) ==
    [shape |-> <<1, x.shape[2], layer.hidden_size>>, by |-> "gru", of |-> x.by]

\* nn.Dropout(p): keeps the shape
TorchDropout(x) == [shape |-> x.shape, by |-> "dropout", of |-> x.by]

\* get_head(cfg, n_in, n_out): a layer from n_in to n_out on the last axis,
\* returning a dict that contains 'y_hat'
HeadAccepts(layer, x) == x.shape[3] = layer.n_in

HeadForward(layer, x, extra) ==
    [k \in {"y_hat"} \cup extra |->
        [shape |-> <<x.shape[1], x.shape[2], layer.n_out>>, by |-> "head", of |-> x.by]]

(***************************************************************************)
(* GRU.__init__ and GRU.forward: the expressions the code evaluates.       *)
(***************************************************************************)
\* faulty variant: the core is sized by the hidden size on both sides
GruArgs_HiddenAsInput(s, c) ==
    [input_size |-> c.hidden_size, hidden_size |-> c.hidden_size]

\* nn.GRU(input_size=self.embedding_net.output_size, hidden_size=cfg.hidden_size)
GruArgs(s, c) ==
    [input_size |-> s.embedding_net.output_size, hidden_size |-> c.hidden_size]

\* get_head(cfg=cfg, n_in=cfg.hidden_size, n_out=self.output_size)
HeadArgs(s, c) == [n_in |-> c.hidden_size, n_out |-> s.output_size]

\* faulty variant: the hidden state is left out of the result
InitialPred_Empty(hn) == EmptyDict

\* pred = {'h_n': h_n}
InitialPred(hn) == [k \in {"h_n"} |-> hn]

\* faulty variant: only the last step is passed on to the head
HeadInput_LastStep(output, hn) == hn

\* gru_output.transpose(0, 1)
HeadInput(output, hn) == Transpose01(output)

\* pred.update(other): the entries of other replace those of pred
DictUpdate(d, other) ==
    [k \in DOMAIN d \cup DOMAIN other |-> IF k \in DOMAIN other THEN other[k] ELSE d[k]]

NoSelf ==
    [cfg |-> SampleConfig, output_size |-> 0,
     embedding_net |-> [output_size |-> 0],
     gru |-> [input_size |-> 0, hidden_size |-> 0],
     dropout |-> [p |-> "none"],
     head |-> [n_in |-> 0, n_out |-> 0]]

\* no GRU is being built or run
GruIdle ==
    /\ self = NoSelf
    /\ ipc = "idle"
    /\ wired = <<>>
    /\ data = [batch_size |-> 0, seq_length |-> 0]
    /\ fpc = "idle"
    /\ x_d = NoTensor
    /\ gru_output = NoTensor
    /\ h_n = NoTensor
    /\ pred = EmptyDict
    /\ dropped = NoTensor
    /\ head_out = EmptyDict
    /\ stages = <<>>
    /\ out = EmptyDict
    /\ ncalls = 0

Init ==
    /\ SINGLE_FREQ_MODELS \in SingleFreqChoices
    /\ cfg = SampleConfig
    /\ pc = "idle"
    /\ todo = <<>>
    /\ warned = <<>>
    /\ constructed = <<>>
    /\ model = None
    /\ result = None
    /\ error = NoError
    /\ GruIdle

\* get_model(cfg) is called
GetModelCall ==
    /\ pc = "idle"
    /\ \E c \in Configs : cfg' = c
    /\ pc' = "check"
    /\ UNCHANGED <<SINGLE_FREQ_MODELS, todo, warned, constructed, model, result, error>>
    /\ UNCHANGED gvars

\* the frequency check raises ValueError
FreqCheckRaise ==
    /\ pc = "check"
    /\ MultiFreqUnsupported(SINGLE_FREQ_MODELS, cfg)
    /\ error' = [type |-> "ValueError", model |-> cfg.model]
    /\ pc' = "raised"
    /\ UNCHANGED <<SINGLE_FREQ_MODELS, cfg, todo, warned, constructed, model, result>>
    /\ UNCHANGED gvars

\* the frequency check passes and the if/elif chain selects a branch
SelectBranch ==
    /\ pc = "check"
    /\ ~MultiFreqUnsupported(SINGLE_FREQ_MODELS, cfg)
    /\ todo' = Branch(cfg.model)
    /\ pc' = "branch"
    /\ UNCHANGED <<SINGLE_FREQ_MODELS, cfg, warned, constructed, model, result, error>>
    /\ UNCHANGED gvars

\* warnings.warn(..., FutureWarning)
Warn ==
    /\ pc = "branch"
    /\ todo # <<>>
    /\ Head(todo).op = "warn"
    /\ warned' = Append(warned, Head(todo).cls)
    /\ todo' = Tail(todo)
    /\ UNCHANGED <<SINGLE_FREQ_MODELS, cfg, pc, constructed, model, result, error>>
    /\ UNCHANGED gvars

\* model = <Class>(cfg=cfg)
Construct ==
    /\ pc = "branch"
    /\ todo # <<>>
    /\ Head(todo).op = "new"
    /\ constructed' = Append(constructed, [cls |-> Head(todo).cls, cfg |-> cfg])
    /\ model' = [cls |-> Head(todo).cls, cfg |-> cfg]
    /\ todo' = Tail(todo)
    /\ UNCHANGED <<SINGLE_FREQ_MODELS, cfg, pc, warned, result, error>>
    /\ UNCHANGED gvars

\* raise NotImplementedError(f"{cfg.model} not implemented ...")
RaiseNotImplemented ==
    /\ pc = "branch"
    /\ todo # <<>>
    /\ Head(todo).op = "raise"
    /\ error' = [type |-> Head(todo).cls, model |-> cfg.model]
    /\ pc' = "raised"
    /\ UNCHANGED <<SINGLE_FREQ_MODELS, cfg, todo, warned, constructed, model, result>>
    /\ UNCHANGED gvars

\* return model
Return ==
    /\ pc = "branch"
    /\ todo = <<>>
    /\ result' = model
    /\ pc' = "returned"
    /\ UNCHANGED <<SINGLE_FREQ_MODELS, cfg, todo, warned, constructed, model, error>>
    /\ UNCHANGED gvars

Next ==
    \/ GetModelCall
    \/ FreqCheckRaise
    \/ SelectBranch
    \/ Warn
    \/ Construct
    \/ RaiseNotImplemented
    \/ Return

Spec == Init /\ [][Next]_vars

(***************************************************************************)
(* Properties of get_model, checked under Spec.                            *)
(***************************************************************************)
Finished == pc \in {"returned", "raised"}

\* the frequency check of the configuration in hand fails
FailsFrequencyCheck == cfg.model \in SINGLE_FREQ_MODELS /\ Len(cfg.use_frequencies) > 1

\* the supported identifiers and the type each one names
MatchingType ==
    [m \in {"cudalstm", "ealstm", "customlstm", "gru", "embcudalstm", "mtslstm", "odelstm"} |->
        CASE m = "cudalstm" -> "CudaLSTM"
          [] m = "ealstm" -> "EALSTM"
          [] m = "customlstm" -> "CustomLSTM"
          [] m = "gru" -> "GRU"
          [] m = "embcudalstm" -> "EmbCudaLSTM"
          [] m = "mtslstm" -> "MTSLSTM"
          [] m = "odelstm" -> "ODELSTM"]

\* C1: for a supported identifier and a configuration that passes the
\* frequency check, get_model runs to its return statement, invokes exactly one
\* constructor, the one of the matching type, with the configuration it was
\* given, and returns that instance; it raises only when the frequency check
\* fails.
C1_ReturnsMatchingType ==
    (pc # "idle" /\ cfg.model \in DOMAIN MatchingType) =>
        /\ pc = "raised" => FailsFrequencyCheck
        /\ pc = "branch" => (todo # <<>> \/ Len(constructed) = 1)
        /\ pc = "returned" =>
            /\ ~FailsFrequencyCheck
            /\ result = [cls |-> MatchingType[cfg.model], cfg |-> cfg]
            /\ constructed = <<result>>

C1_Witness ==
    /\ pc = "returned"
    /\ cfg.model = "gru"
    /\ result.cls = "GRU"
    /\ result.cfg.hidden_size = MaxHidden

\* C2: for an identifier without a branch in get_model, the call ends with
\* NotImplementedError naming the identifier, no constructor is invoked and
\* nothing is returned.
C2_UnsupportedModelFails ==
    (pc \notin {"idle", "check"} /\ cfg.model \notin HandledIds) =>
        /\ pc # "returned"
        /\ result = None
        /\ constructed = <<>>
        /\ pc = "branch" => todo # <<>>
        /\ pc = "raised" => error = [type |-> "NotImplementedError", model |-> cfg.model]

C2_Witness ==
    /\ pc = "raised"
    /\ cfg.model = "arlstm"
    /\ Len(cfg.use_frequencies) > 1
    /\ error.type = "NotImplementedError"

\* C3: for an identifier listed in SINGLE_FREQ_MODELS and a configuration
\* with more than one frequency, get_model raises ValueError right after the
\* check, invokes no constructor and returns nothing.
C3_MultiFrequencyFails ==
    (pc \notin {"idle", "check"} /\ cfg.model \in SINGLE_FREQ_MODELS
                                 /\ Len(cfg.use_frequencies) > 1) =>
        /\ pc = "raised"
        /\ error = [type |-> "ValueError", model |-> cfg.model]
        /\ result = None
        /\ constructed = <<>>

C3_Witness ==
    /\ pc = "raised"
    /\ error.type = "ValueError"
    /\ cfg.model = "gru"
    /\ Len(cfg.use_frequencies) = 2

\* C5: when get_model has raised (either error), no constructor has been
\* invoked and no warning has been emitted.
C5_ErrorsBeforeAnyWork ==
    pc = "raised" =>
        /\ error.type \in {"ValueError", "NotImplementedError"}
        /\ constructed = <<>>
        /\ warned = <<>>
        /\ model = None
        /\ result = None

C5_Witness ==
    /\ pc = "raised"
    /\ error.type = "NotImplementedError"
    /\ cfg.model = "GRU"

\* C10: ValueError is raised only for an identifier in SINGLE_FREQ_MODELS
\* with more than one frequency; every other configuration of an identifier
\* get_model knows reaches its constructor and is returned, the sample
\* configuration (mtslstm with 1D and 1h) among them.
C10_MultiFrequencyOnlyWhenUnsupported ==
    /\ error.type = "ValueError" => FailsFrequencyCheck
    /\ (Finished /\ cfg.model \in HandledIds /\ ~FailsFrequencyCheck) =>
            /\ pc = "returned"
            /\ Len(constructed) = 1
            /\ result = constructed[1]
            /\ result.cfg = cfg
    /\ (Finished /\ cfg = SampleConfig) => (pc = "returned" /\ result.cls = "MTSLSTM")

C10_Witness ==
    /\ pc = "returned"
    /\ cfg = SampleConfig
    /\ result.cls = "MTSLSTM"
    /\ Len(result.cfg.use_frequencies) = 2

(***************************************************************************)
(* GRU.__init__(cfg) and GRU.forward(data), statement by statement.        *)
(***************************************************************************)
flocals == <<data, fpc, x_d, gru_output, h_n, pred, dropped, head_out, stages, out, ncalls>>

InitGRU ==
    /\ SINGLE_FREQ_MODELS = {}
    /\ cfg \in GRUConfigs
    /\ pc = "idle"
    /\ todo = <<>>
    /\ warned = <<>>
    /\ constructed = <<>>
    /\ model = None
    /\ result = None
    /\ error = NoError
    /\ self = NoSelf
    /\ ipc = "super"
    /\ wired = <<>>
    /\ data = [batch_size |-> 0, seq_length |-> 0]
    /\ fpc = "idle"
    /\ x_d = NoTensor
    /\ gru_output = NoTensor
    /\ h_n = NoTensor
    /\ pred = EmptyDict
    /\ dropped = NoTensor
    /\ head_out = EmptyDict
    /\ stages = <<>>
    /\ out = EmptyDict
    /\ ncalls = 0

\* super(GRU, self).__init__(cfg=cfg)
InitSuper ==
    /\ ipc = "super"
    /\ self' = [self EXCEPT !.cfg = cfg, !.output_size = BaseModelOutputSize(cfg)]
    /\ ipc' = "embedding_net"
    /\ UNCHANGED <<wired, flocals, fvars>>

\* self.embedding_net = InputLayer(cfg)
InitEmbeddingNet ==
    /\ ipc = "embedding_net"
    /\ self' = [self EXCEPT !.embedding_net = InputLayerNew(cfg)]
    /\ wired' = Append(wired, "embedding_net")
    /\ ipc' = "gru"
    /\ UNCHANGED <<flocals, fvars>>

\* self.gru = nn.GRU(...)
InitGru ==
    /\ ipc = "gru"
    /\ self' = [self EXCEPT !.gru = GruArgs(self, cfg)]
    /\ wired' = Append(wired, "gru")
    /\ ipc' = "dropout"
    /\ UNCHANGED <<flocals, fvars>>

\* self.dropout = nn.Dropout(p=cfg.output_dropout)
InitDropout ==
    /\ ipc = "dropout"
    /\ self' = [self EXCEPT !.dropout = [p |-> cfg.output_dropout]]
    /\ wired' = Append(wired, "dropout")
    /\ ipc' = "head"
    /\ UNCHANGED <<flocals, fvars>>

\* self.head = get_head(...)
InitHead ==
    /\ ipc = "head"
    /\ self' = [self EXCEPT !.head = HeadArgs(self, cfg)]
    /\ wired' = Append(wired, "head")
    /\ ipc' = "done"
    /\ UNCHANGED <<flocals, fvars>>

\* model.forward(data) is called on the constructed GRU
ForwardCall ==
    /\ ipc = "done"
    /\ fpc \in {"idle", "done"}
    /\ ncalls < MaxForwardCalls
    /\ \E d \in Batches : data' = d
    /\ ncalls' = ncalls + 1
    /\ fpc' = "embedding_net"
    /\ x_d' = NoTensor
    /\ gru_output' = NoTensor
    /\ h_n' = NoTensor
    /\ pred' = EmptyDict
    /\ dropped' = NoTensor
    /\ head_out' = EmptyDict
    /\ stages' = <<>>
    /\ out' = EmptyDict
    /\ UNCHANGED <<self, ipc, wired, fvars>>

\* x_d = self.embedding_net(data, concatenate_output=True)
Embed ==
    /\ fpc = "embedding_net"
    /\ x_d' = InputLayerForward(self.embedding_net, data)
    /\ stages' = Append(stages, "embedding_net")
    /\ fpc' = "gru"
    /\ UNCHANGED <<self, ipc, wired, data, gru_output, h_n, pred, dropped, head_out, out,
                   ncalls, fvars>>

\* gru_output, h_n = self.gru(input=x_d)
RunGru ==
    /\ fpc = "gru"
    /\ stages' = Append(stages, "gru")
    /\ IF TorchGRUAccepts(self.gru, x_d)
       THEN /\ gru_output' = TorchGRUOutput(self.gru, x_d)
            /\ h_n' = TorchGRUHidden(self.gru, x_d)
            /\ fpc' = "h_n"
       ELSE /\ fpc' = "RuntimeError"
            /\ UNCHANGED <<gru_output, h_n>>
    /\ UNCHANGED <<self, ipc, wired, data, x_d, pred, dropped, head_out, out, ncalls, fvars>>

\* h_n = h_n.transpose(0, 1); pred = {'h_n': h_n}
HiddenToPred ==
    /\ fpc = "h_n"
    /\ h_n' = Transpose01(h_n)
    /\ pred' = InitialPred(h_n')
    /\ fpc' = "dropout"
    /\ UNCHANGED <<self, ipc, wired, data, x_d, gru_output, dropped, head_out, stages, out,
                   ncalls, fvars>>

\* faulty variant: the head is fed without the dropout layer being called
Dropout_Skipped ==
    /\ fpc = "dropout"
    /\ dropped' = HeadInput(gru_output, h_n)
    /\ fpc' = "head"
    /\ UNCHANGED <<self, ipc, wired, data, x_d, gru_output, h_n, pred, head_out, stages, out,
                   ncalls, fvars>>

\* self.dropout(gru_output.transpose(0, 1))
Dropout ==
    /\ fpc = "dropout"
    /\ dropped' = TorchDropout(HeadInput(gru_output, h_n))
    /\ stages' = Append(stages, "dropout")
    /\ fpc' = "head"
    /\ UNCHANGED <<self, ipc, wired, data, x_d, gru_output, h_n, pred, head_out, out,
                   ncalls, fvars>>

\* self.head(...)
ApplyHead ==
    /\ fpc = "head"
    /\ stages' = Append(stages, "head")
    /\ IF HeadAccepts(self.head, dropped)
       THEN /\ \E extra \in SUBSET ExtraHeadKeys :
                    head_out' = HeadForward(self.head, dropped, extra)
            /\ fpc' = "update"
       ELSE /\ fpc' = "RuntimeError"
            /\ UNCHANGED head_out
    /\ UNCHANGED <<self, ipc, wired, data, x_d, gru_output, h_n, pred, dropped, out, ncalls,
                   fvars>>

\* pred.update(...); return pred
UpdateAndReturn ==
    /\ fpc = "update"
    /\ pred' = DictUpdate(pred, head_out)
    /\ out' = pred'
    /\ stages' = Append(stages, "update")
    /\ fpc' = "done"
    /\ UNCHANGED <<self, ipc, wired, data, x_d, gru_output, h_n, dropped, head_out, ncalls,
                   fvars>>

NextGRU ==
    \/ InitSuper
    \/ InitEmbeddingNet
    \/ InitGru
    \/ InitDropout
    \/ InitHead
    \/ ForwardCall
    \/ Embed
    \/ RunGru
    \/ HiddenToPred
    \/ Dropout
    \/ ApplyHead
    \/ UpdateAndReturn

SpecGRU == InitGRU /\ [][NextGRU]_vars

(***************************************************************************)
(* Properties of GRU, checked under SpecGRU.                               *)
(***************************************************************************)
IsPrefix(a, b) == Len(a) <= Len(b) /\ a = SubSeq(b, 1, Len(a))

\* C6: a finished forward call returns a mapping with the key 'y_hat' whose
\* value has one entry per sample of the batch and per time step of the
\* input sequence; no forward call fails on a shape.
C6_PredictionForFullSequence ==
    /\ fpc # "RuntimeError"
    /\ fpc = "done" =>
        /\ "y_hat" \in DOMAIN out
        /\ out["y_hat"].shape[1] = data.batch_size
        /\ out["y_hat"].shape[2] = data.seq_length

C6_Witness ==
    /\ fpc = "done"
    /\ data.seq_length > 1
    /\ "y_hat" \in DOMAIN out
    /\ out["y_hat"].shape[2] = data.seq_length

ForwardStages == <<"embedding_net", "gru", "dropout", "head", "update">>

\* C7: in every forward call the stages run in the order embedding, GRU,
\* dropout, head, merge, each once, each on the output of the one before.
C7_FixedLinearPipeline ==
    /\ IsPrefix(stages, ForwardStages)
    /\ fpc # "RuntimeError"
    /\ fpc = "done" =>
        /\ stages = ForwardStages
        /\ x_d.by = "embedding_net" /\ x_d.of = "data"
        /\ gru_output.by = "gru" /\ gru_output.of = "embedding_net"
        /\ dropped.by = "dropout" /\ dropped.of = "gru"
        /\ \A k \in DOMAIN head_out :
                head_out[k].by = "head" /\ head_out[k].of = "dropout" /\ out[k] = head_out[k]

C7_Witness ==
    /\ fpc = "done"
    /\ ncalls > 1
    /\ stages = ForwardStages

GruParts == <<"embedding_net", "gru", "dropout", "head">>

\* C8: GRU.__init__ assigns embedding, recurrent core, dropout and head in
\* that order; the core's input size is the embedding's output size, its
\* hidden size the configured one, and the head maps the configured hidden
\* size to the model's output size.
C8_ConstructionWiring ==
    /\ IsPrefix(wired, GruParts)
    /\ ipc = "done" =>
        /\ wired = GruParts
        /\ self.gru.input_size = self.embedding_net.output_size
        /\ self.gru.hidden_size = cfg.hidden_size
        /\ self.head.n_in = cfg.hidden_size
        /\ self.head.n_out = self.output_size

C8_Witness ==
    /\ ipc = "done"
    /\ self.embedding_net.output_size # cfg.hidden_size
    /\ self.output_size # cfg.hidden_size
    /\ self.gru.input_size = self.embedding_net.output_size

\* C9: the mapping forward returns has the head's keys plus 'h_n'; every
\* entry of the head is in it unchanged, and 'h_n' is the core's final hidden
\* state, [batch size, 1, hidden size], unless the head returns 'h_n' itself.
C9_MergeOfHeadAndHidden ==
    fpc = "done" =>
        /\ DOMAIN out = DOMAIN head_out \cup {"h_n"}
        /\ \A k \in DOMAIN head_out : out[k] = head_out[k]
        /\ "h_n" \notin DOMAIN head_out =>
            /\ out["h_n"] = h_n
            /\ h_n.by = "gru"
            /\ h_n.shape = <<data.batch_size, 1, cfg.hidden_size>>

C9_Witness ==
    /\ fpc = "done"
    /\ "h_n" \notin DOMAIN head_out
    /\ out["h_n"].by = "gru"
    /\ out["h_n"].shape = <<data.batch_size, 1, cfg.hidden_size>>

====
